---- MODULE Spec2Model ----
(***************************************************************************)
(* el-volante-virtual: the geometry classifiers, the player assignment and *)
(* the key activation logic of Engine.run (src/elvolantevirtual/main.py).  *)
(*                                                                         *)
(* Coordinates are integers in hundredths of the frame (x = 50 is the      *)
(* vertical middle line 0.5).  The grids hold even numbers only, so every  *)
(* halving of the code is exact; float arithmetic is modelled by exact     *)
(* rational arithmetic, apart from the sign of a float zero, which decides *)
(* the result of math.atan2 on the negative x axis and is modelled.        *)
(***************************************************************************)
EXTENDS Integers, Sequences, FiniteSets, TLC

\* ------------------------------------------------------------------------
\* Values

None == << >>
Some(v) == << v >>

KeypointLabels == {"NOSE", "LEFT_WRIST", "RIGHT_WRIST", "LEFT_HIP", "RIGHT_HIP"}

Pointer == {"high", "mid", "low", "not_detected"}

Wheel == {"left", "neutral", "right", "not_detected"}

\* detection.keypoints.get(label, None)
Get(detection, label) ==
    IF label \in DOMAIN detection THEN Some(detection[label]) ELSE None

Min2(a, b) == IF a <= b THEN a ELSE b

Max2(a, b) == IF a >= b THEN a ELSE b

Abs(a) == IF a < 0 THEN -a ELSE a

\* ------------------------------------------------------------------------
\* Geometry classifiers

determine_center_of_wrists(detection) ==
    LET left_wrist == Get(detection, "LEFT_WRIST")
        right_wrist == Get(detection, "RIGHT_WRIST")
    IN  IF left_wrist = None \/ right_wrist = None
        THEN None
        ELSE LET xmin == Min2(left_wrist[1].x, right_wrist[1].x)
                 xmax == Max2(left_wrist[1].x, right_wrist[1].x)
                 ymin == Min2(left_wrist[1].y, right_wrist[1].y)
                 ymax == Max2(left_wrist[1].y, right_wrist[1].y)
                 center_x == xmin + (xmax - xmin) \div 2
                 center_y == ymin + (ymax - ymin) \div 2
             IN  Some(<<center_x, center_y>>)

\* Faulty variant: a wrist midpoint at exactly 0.5 goes to player 0
determine_player_id_boundary_left(detection) ==
    LET center == determine_center_of_wrists(detection)
    IN  IF center = None
        THEN None
        ELSE IF center[1][1] <= 50 THEN Some(0) ELSE Some(1)

determine_player_id_of_the_detection(detection) ==
    LET center == determine_center_of_wrists(detection)
    IN  IF center = None
        THEN None
        ELSE IF center[1][1] < 50 THEN Some(0) ELSE Some(1)

\* Faulty variant: the hip level needs both hips
determine_hip_level_needs_both(detection) ==
    LET left_hip == Get(detection, "LEFT_HIP")
        right_hip == Get(detection, "RIGHT_HIP")
    IN  IF left_hip = None \/ right_hip = None
        THEN None
        ELSE Some((left_hip[1].y + right_hip[1].y) \div 2)

determine_hip_level(detection) ==
    LET left_hip == Get(detection, "LEFT_HIP")
        right_hip == Get(detection, "RIGHT_HIP")
    IN  IF left_hip = None /\ right_hip = None
        THEN None
        ELSE LET hip_sum == (IF left_hip # None THEN left_hip[1].y ELSE 0)
                            + (IF right_hip # None THEN right_hip[1].y ELSE 0)
                 hip_point_count == (IF left_hip # None THEN 1 ELSE 0)
                                    + (IF right_hip # None THEN 1 ELSE 0)
             IN  Some(hip_sum \div hip_point_count)

\* Faulty variant: the thresholds are taken with >= instead of >
QuotientGreaterOrEqual(num, den, p, q) ==
    IF den > 0 THEN num * q >= p * den ELSE num * q <= p * den

\* num / den > p / q for a float division num / den with den # 0 and q > 0
QuotientGreater(num, den, p, q) ==
    IF den > 0 THEN num * q > p * den ELSE num * q < p * den

\* The result is a Pointer value, or "ZeroDivisionError" when the division
\* of line 198 raises (bottom = top).
determine_pointer_position(detection) ==
    LET nose == Get(detection, "NOSE")
        bottom == determine_hip_level(detection)
        center == determine_center_of_wrists(detection)
    IN  IF nose = None THEN "not_detected"
        ELSE IF bottom = None THEN "not_detected"
        ELSE IF center = None THEN "not_detected"
        ELSE LET top == nose[1].y
                 pointer == center[1][2]
                 num == bottom[1] - pointer
                 den == bottom[1] - top
             IN  IF den = 0 THEN "ZeroDivisionError"
                 ELSE IF QuotientGreater(num, den, 66, 100) THEN "high"
                 ELSE IF QuotientGreater(num, den, 33, 100) THEN "mid"
                 ELSE "low"

\* ceil(10^5 * tan(d degrees)) for d = 0 .. 89, at index d + 1; tan is
\* rational at 0 and 45 degrees only.
TanTable ==
    << 0, 1746, 3493, 5241, 6993, 8749, 10511, 12279, 14055,
       15839, 17633, 19439, 21256, 23087, 24933, 26795, 28675,
       30574, 32492, 34433, 36398, 38387, 40403, 42448, 44523,
       46631, 48774, 50953, 53171, 55431, 57736, 60087, 62487,
       64941, 67451, 70021, 72655, 75356, 78129, 80979, 83910,
       86929, 90041, 93252, 96569, 100000, 103554, 107237, 111062,
       115037, 119176, 123490, 127995, 132705, 137639, 142815,
       148257, 153987, 160034, 166428, 173206, 180405, 188073,
       196262, 205031, 214451, 224604, 235586, 247509, 260509,
       274748, 290422, 307769, 327086, 348742, 373206, 401079,
       433148, 470464, 514456, 567129, 631376, 711537, 814435,
       951437, 1143006, 1430067, 1908114, 2863626, 5728997 >>

\* An angle is held in half-degree cells: 2 * d is exactly d degrees and
\* 2 * d + 1 is the open interval (d, d + 1) degrees, negated below zero.
\* The encoding keeps the order, so comparing an angle with a whole number
\* of degrees n is comparing its cell with 2 * n.
Degrees(n) == 2 * n

\* The angle of (x, y) for x >= 0, y >= 0, not both zero: in [0, 90] degrees
FirstQuadrantAngle(y, x) ==
    IF x = 0 THEN Degrees(90)
    ELSE LET d == CHOOSE e \in 0..89 :
                    /\ TanTable[e + 1] * x <= y * 100000
                    /\ (e < 89 => TanTable[e + 2] * x > y * 100000)
             exact == (d = 0 /\ y = 0) \/ (d = 45 /\ y = x)
         IN  IF exact THEN Degrees(d) ELSE Degrees(d) + 1

\* math.atan2(y, x) * 180.0 / math.pi for y # 0
Atan2Degrees(y, x) ==
    LET a == FirstQuadrantAngle(Abs(y), Abs(x))
        b == IF x >= 0 THEN a ELSE Degrees(180) - a
    IN  IF y > 0 THEN b ELSE -b

\* Faulty variant: the sign of the zero is lost, as for atan2(0.0, x)
Atan2DegreesOfPositiveZero(x) ==
    IF x < 0 THEN Degrees(180) ELSE Degrees(0)

\* math.atan2(-0.0, x) * 180.0 / math.pi: the float -0.0 keeps its sign, so
\* the result is -180 on the negative x axis and -0.0 elsewhere.
Atan2DegreesOfNegativeZero(x) ==
    IF x < 0 THEN Degrees(-180) ELSE Degrees(0)

determine_wheel_angle(detection) ==
    LET left_wrist == Get(detection, "LEFT_WRIST")
        right_wrist == Get(detection, "RIGHT_WRIST")
    IN  IF left_wrist = None \/ right_wrist = None
        THEN None
        ELSE LET xmin == Min2(left_wrist[1].x, right_wrist[1].x)
                 xmax == Max2(left_wrist[1].x, right_wrist[1].x)
                 ymin == Min2(left_wrist[1].y, right_wrist[1].y)
                 ymax == Max2(left_wrist[1].y, right_wrist[1].y)
                 center_x == xmin + (xmax - xmin) \div 2
                 center_y == ymin + (ymax - ymin) \div 2
                 vector_x == left_wrist[1].x - center_x
                 vector_y == left_wrist[1].y - center_y
                 \* vector_y = 0 is the float +0.0, and -vector_y is -0.0
                 angle_in_degrees ==
                     IF vector_y = 0
                     THEN Atan2DegreesOfNegativeZero(vector_x)
                     ELSE Atan2Degrees(-vector_y, vector_x)
             IN  Some(angle_in_degrees)

ANGLE_TOLERANCE_FOR_NEUTRALITY == 22

\* Faulty variant: the sign of the angle is read the other way round
determine_wheel_direction_sign_swapped(detection) ==
    LET angle_in_degrees == determine_wheel_angle(detection)
    IN  IF angle_in_degrees = None THEN "not_detected"
        ELSE IF Abs(angle_in_degrees[1]) <= Degrees(ANGLE_TOLERANCE_FOR_NEUTRALITY)
             THEN "neutral"
        ELSE IF angle_in_degrees[1] > Degrees(0) THEN "right"
        ELSE "left"

determine_wheel_direction(detection) ==
    LET angle_in_degrees == determine_wheel_angle(detection)
    IN  IF angle_in_degrees = None THEN "not_detected"
        ELSE IF Abs(angle_in_degrees[1]) <= Degrees(ANGLE_TOLERANCE_FOR_NEUTRALITY)
             THEN "neutral"
        ELSE IF angle_in_degrees[1] < Degrees(0) THEN "right"
        ELSE "left"

\* ------------------------------------------------------------------------
\* Player assignment

RECURSIVE SplitLoop(_, _, _)
\* The for loop of split_detections_for_each_player from detection i on
SplitLoop(detections, i, detection_by_player) ==
    IF i > Len(detections) THEN detection_by_player
    ELSE LET detection == detections[i]
             player_id == determine_player_id_of_the_detection(detection)
         IN  IF player_id = None
             THEN SplitLoop(detections, i + 1, detection_by_player)
             ELSE IF detection_by_player[player_id[1] + 1] = None
             THEN SplitLoop(detections, i + 1,
                      [detection_by_player EXCEPT
                          ![player_id[1] + 1] = Some(detection)])
             ELSE SplitLoop(detections, i + 1, detection_by_player)

\* The list in the other order
Reverse(list) == [i \in 1..Len(list) |-> list[Len(list) + 1 - i]]

\* Faulty variant: the last detection of a half gets the slot
split_detections_last_wins(detections) ==
    SplitLoop(Reverse(detections), 1, <<None, None>>)

\* The pair (detection of player 0, detection of player 1), each optional
split_detections_for_each_player(detections) ==
    SplitLoop(detections, 1, <<None, None>>)

\* ------------------------------------------------------------------------
\* Inputs

\* The keypoints dictionary of a detection: the labels that are present
MakeDetection(nose, left_hip, right_hip, left_wrist, right_wrist) ==
    LET all == [NOSE |-> nose, LEFT_HIP |-> left_hip, RIGHT_HIP |-> right_hip,
                LEFT_WRIST |-> left_wrist, RIGHT_WRIST |-> right_wrist]
        present == {label \in KeypointLabels : all[label] # None}
    IN  [label \in present |-> all[label][1]]

Point(x, y) == Some([x |-> x, y |-> y])

Xs == {20, 50, 80}

Ys == {-20, 0, 34, 100}

OptionalBodyPoints == {None} \cup {Point(50, y) : y \in Ys}

OptionalWristPoints == {None} \cup {Point(x, y) : x \in Xs, y \in Ys}

\* The detections the classifiers are applied to
ClassifyDetections ==
    {MakeDetection(n, lh, rh, lw, rw) :
        n \in OptionalBodyPoints, lh \in OptionalBodyPoints,
        rh \in OptionalBodyPoints,
        lw \in OptionalWristPoints, rw \in OptionalWristPoints}

\* The detections the player assignment is applied to: wrists at the three
\* x positions or missing
SplitDetections ==
    {MakeDetection(Point(50, 0), None, Point(50, 100), lw, rw) :
        lw \in {None} \cup {Point(x, 34) : x \in Xs},
        rw \in {None} \cup {Point(x, 34) : x \in Xs}}

MaxSplitLen == 3

SeqsUpTo(S, n) == UNION {[1..m -> S] : m \in 0..n}

\* ------------------------------------------------------------------------
\* Engine

VARIABLES
    pointer_to_key_by_player,  \* Engine.pointer_to_key_by_player
    wheel_to_key_by_player,    \* Engine.wheel_to_key_by_player
    single_player,             \* Engine.single_player
    activations_by_key,        \* Engine.activations_by_key, in insertion order
    active_keys,               \* Engine.active_keys
    keyboard,                  \* the keyboard sink the commands are sent to
    frame,                     \* what the last call of Engine.run did
    single_source_run,         \* keys held by one source per frame since pressed
    reference,                 \* the controller run on the set of the demanded keys
    args,                      \* the arguments of a classifier call
    results,                   \* the results of a classifier call
    argv,                      \* the command line that main parses
    main                       \* where main is, and what it returned

vars == <<pointer_to_key_by_player, wheel_to_key_by_player, single_player,
          activations_by_key, active_keys, keyboard, frame, single_source_run,
          reference, args, results, argv, main>>

engine_vars == <<pointer_to_key_by_player, wheel_to_key_by_player,
                 single_player, activations_by_key, active_keys, keyboard,
                 frame, single_source_run, reference>>

Keys == {"a", "b"}

MaxActivation == 4

MaxDetections == 2

\* The keys of the dictionary, and the dictionary as a function
DictKeys(dict) == {dict[i].key : i \in 1..Len(dict)}

DictGet(dict, key) ==
    LET i == CHOOSE j \in 1..Len(dict) : dict[j].key = key
    IN  dict[i].activation

RECURSIVE DecayLoop(_, _)
\* for key in self.activations_by_key: self.activations_by_key[key] -= 1,
\* from item i on
DecayLoop(dict, i) ==
    IF i > Len(dict) THEN dict
    ELSE DecayLoop([dict EXCEPT ![i].activation = @ - 1], i + 1)

\* Faulty variant: the counts are not decremented
DecayOmitted(dict) == dict

\* Faulty variant: a count of 1 is not decremented
DecayStopsAtOne(dict) ==
    [i \in 1..Len(dict) |->
        IF dict[i].activation > 1
        THEN [dict[i] EXCEPT !.activation = @ - 1]
        ELSE dict[i]]

\* Faulty variant: the counts are decremented twice
DecayTwice(dict) == DecayLoop(DecayLoop(dict, 1), 1)

Decay(dict) == DecayLoop(dict, 1)

\* Faulty variant: a key that is not tracked yet is not added
IncrementTrackedOnly(dict, key) ==
    IF key \in DictKeys(dict)
    THEN LET i == CHOOSE j \in 1..Len(dict) : dict[j].key = key
         IN  [dict EXCEPT ![i].activation = @ + 1]
    ELSE dict

\* self.activations_by_key[key] += 1 on the defaultdict(lambda: 0)
Increment(dict, key) ==
    IF key \in DictKeys(dict)
    THEN LET i == CHOOSE j \in 1..Len(dict) : dict[j].key = key
         IN  [dict EXCEPT ![i].activation = @ + 1]
    ELSE Append(dict, [key |-> key, activation |-> 1])

\* Faulty variant: the released keys stay in the dictionary
DeleteKeysOmitted(dict, released_key_set) == dict

\* del self.activations_by_key[key] for every key in released_key_set
DeleteKeys(dict, released_key_set) ==
    SelectSeq(dict, LAMBDA entry : entry.key \notin released_key_set)

\* Faulty variant: the single-player mode is ignored
PlayerDetectionsAlwaysSplit(detections) ==
    split_detections_for_each_player(detections)

\* The player detections of a frame (lines 738-744)
PlayerDetections(detections) ==
    IF ~single_player
    THEN split_detections_for_each_player(detections)
    ELSE IF Len(detections) = 0
         THEN <<None, None>>
         ELSE <<Some(detections[1]), None>>

\* Faulty variant: the key of the pointer is counted also when it is ""
HandlePlayerEmptyPointerKey(acc, player_id, detection) ==
    LET pointer_position ==
            IF detection = None THEN "not_detected"
            ELSE determine_pointer_position(detection[1])
        wheel_direction ==
            IF detection = None THEN "not_detected"
            ELSE determine_wheel_direction(detection[1])
    IN  IF pointer_position = "ZeroDivisionError"
        THEN [acc EXCEPT !.raised = "ZeroDivisionError"]
        ELSE LET classified ==
                     [acc EXCEPT
                         !.pointer_positions = Append(@, pointer_position),
                         !.wheel_directions = Append(@, wheel_direction)]
             IN  IF player_id + 1 > Len(pointer_to_key_by_player)
                 THEN [classified EXCEPT !.raised = "IndexError"]
                 ELSE LET pointer_key ==
                              pointer_to_key_by_player[player_id + 1][pointer_position]
                          wheel_key ==
                              wheel_to_key_by_player[player_id + 1][wheel_direction]
                          after_pointer ==
                              Increment(classified.activations, pointer_key)
                          after_wheel ==
                              IF wheel_key # ""
                              THEN Increment(after_pointer, wheel_key)
                              ELSE after_pointer
                      IN  [classified EXCEPT !.activations = after_wheel]

\* Faulty variant: the key of the wheel is counted also when it is ""
HandlePlayerEmptyWheelKey(acc, player_id, detection) ==
    LET pointer_position ==
            IF detection = None THEN "not_detected"
            ELSE determine_pointer_position(detection[1])
        wheel_direction ==
            IF detection = None THEN "not_detected"
            ELSE determine_wheel_direction(detection[1])
    IN  IF pointer_position = "ZeroDivisionError"
        THEN [acc EXCEPT !.raised = "ZeroDivisionError"]
        ELSE LET classified ==
                     [acc EXCEPT
                         !.pointer_positions = Append(@, pointer_position),
                         !.wheel_directions = Append(@, wheel_direction)]
             IN  IF player_id + 1 > Len(pointer_to_key_by_player)
                 THEN [classified EXCEPT !.raised = "IndexError"]
                 ELSE LET pointer_key ==
                              pointer_to_key_by_player[player_id + 1][pointer_position]
                          wheel_key ==
                              wheel_to_key_by_player[player_id + 1][wheel_direction]
                          after_pointer ==
                              IF pointer_key # ""
                              THEN Increment(classified.activations, pointer_key)
                              ELSE classified.activations
                          after_wheel ==
                              Increment(after_pointer, wheel_key)
                      IN  [classified EXCEPT !.activations = after_wheel]

\* The body of the loop over the players (lines 758-777) for one player.
\* acc.raised names the exception that ended the frame, "" for none.
HandlePlayer(acc, player_id, detection) ==
    LET pointer_position ==
            IF detection = None THEN "not_detected"
            ELSE determine_pointer_position(detection[1])
        wheel_direction ==
            IF detection = None THEN "not_detected"
            ELSE determine_wheel_direction(detection[1])
    IN  IF pointer_position = "ZeroDivisionError"
        THEN [acc EXCEPT !.raised = "ZeroDivisionError"]
        ELSE LET classified ==
                     [acc EXCEPT
                         !.pointer_positions = Append(@, pointer_position),
                         !.wheel_directions = Append(@, wheel_direction)]
             IN  IF player_id + 1 > Len(pointer_to_key_by_player)
                 THEN [classified EXCEPT !.raised = "IndexError"]
                 ELSE LET pointer_key ==
                              pointer_to_key_by_player[player_id + 1][pointer_position]
                          wheel_key ==
                              wheel_to_key_by_player[player_id + 1][wheel_direction]
                          after_pointer ==
                              IF pointer_key # ""
                              THEN Increment(classified.activations, pointer_key)
                              ELSE classified.activations
                          after_wheel ==
                              IF wheel_key # ""
                              THEN Increment(after_pointer, wheel_key)
                              ELSE after_pointer
                      IN  [classified EXCEPT !.activations = after_wheel]

RECURSIVE DemandLoop(_, _, _)
\* for player_id, detection in enumerate(player_detections), from player_id on
DemandLoop(acc, player_id, player_detections) ==
    IF player_id + 1 > Len(player_detections) \/ acc.raised # ""
    THEN acc
    ELSE DemandLoop(HandlePlayer(acc, player_id, player_detections[player_id + 1]),
                    player_id + 1, player_detections)

Demand(dict, player_detections) ==
    DemandLoop([activations |-> dict, pointer_positions |-> << >>,
                wheel_directions |-> << >>, raised |-> ""],
               0, player_detections)

\* Faulty variant: a key with a positive count is pressed whether it is held or not
ResolveKeyPressesAgain(acc, key, activation) ==
    IF ~(activation >= 0)
    THEN [acc EXCEPT !.raised = "AssertionError"]
    ELSE IF activation = 0
    THEN IF key \notin acc.active_keys
         THEN [acc EXCEPT !.raised = "AssertionError"]
         ELSE [acc EXCEPT
                  !.released_key_set = @ \cup {key},
                  !.commands = Append(@, <<"release", key>>),
                  !.active_keys = @ \ {key}]
    ELSE [acc EXCEPT
             !.commands = Append(@, <<"press", key>>),
             !.active_keys = @ \cup {key}]

\* Faulty variant: a pressed key is not added to active_keys
ResolveKeyForgetsPress(acc, key, activation) ==
    IF ~(activation >= 0)
    THEN [acc EXCEPT !.raised = "AssertionError"]
    ELSE IF activation = 0
    THEN IF key \notin acc.active_keys
         THEN [acc EXCEPT !.raised = "AssertionError"]
         ELSE [acc EXCEPT
                  !.released_key_set = @ \cup {key},
                  !.commands = Append(@, <<"release", key>>),
                  !.active_keys = @ \ {key}]
    ELSE IF key \notin acc.active_keys
         THEN [acc EXCEPT !.commands = Append(@, <<"press", key>>)]
         ELSE acc

\* The body of the resolve loop (lines 786-798) for one item
ResolveKey(acc, key, activation) ==
    IF ~(activation >= 0)
    THEN [acc EXCEPT !.raised = "AssertionError"]
    ELSE IF activation = 0
    THEN IF key \notin acc.active_keys
         THEN [acc EXCEPT !.raised = "AssertionError"]
         ELSE [acc EXCEPT
                  !.released_key_set = @ \cup {key},
                  !.commands = Append(@, <<"release", key>>),
                  !.active_keys = @ \ {key}]
    ELSE IF key \notin acc.active_keys
         THEN [acc EXCEPT
                  !.commands = Append(@, <<"press", key>>),
                  !.active_keys = @ \cup {key}]
         ELSE acc

RECURSIVE ResolveLoop(_, _, _)
\* for key, activation in self.activations_by_key.items(), from item i on
ResolveLoop(acc, i, dict) ==
    IF i > Len(dict) \/ acc.raised # ""
    THEN acc
    ELSE ResolveLoop(ResolveKey(acc, dict[i].key, dict[i].activation), i + 1, dict)

Resolve(dict, active) ==
    ResolveLoop([active_keys |-> active, released_key_set |-> {},
                 commands |-> << >>, raised |-> ""],
                1, dict)

\* Keyboard.press and Keyboard.release on a sink that records the keys it
\* holds and whether it ever got a press of a held key or a release of a
\* key it does not hold
Send(sink, command) ==
    IF command[1] = "press"
    THEN [held |-> sink.held \cup {command[2]},
          redundant |-> sink.redundant \/ command[2] \in sink.held]
    ELSE [held |-> sink.held \ {command[2]},
          redundant |-> sink.redundant \/ command[2] \notin sink.held]

RECURSIVE SendAll(_, _, _)
SendAll(sink, commands, i) ==
    IF i > Len(commands) THEN sink
    ELSE SendAll(Send(sink, commands[i]), commands, i + 1)

\* The logical sources (player, channel) whose binding of the classification
\* of a frame is the key
Sources(key, pointer_positions, wheel_directions) ==
    {<<player_id, "pointer">> :
        player_id \in {i \in 1..Len(pointer_positions) :
            /\ i <= Len(pointer_to_key_by_player)
            /\ pointer_to_key_by_player[i][pointer_positions[i]] = key}}
    \cup
    {<<player_id, "wheel">> :
        player_id \in {i \in 1..Len(wheel_directions) :
            /\ i <= Len(wheel_to_key_by_player)
            /\ wheel_to_key_by_player[i][wheel_directions[i]] = key}}

\* The keys that stay in a run of frames with exactly one source each, begun
\* by a frame in which the key was not held
RunAfter(run, active, pointer_positions, wheel_directions) ==
    {key \in Keys :
        /\ Cardinality(Sources(key, pointer_positions, wheel_directions)) = 1
        /\ key \in run \/ key \notin active}

\* The non-empty keys that the tables bind to the classifications of the
\* player slots with a detection
DesiredKeys(player_detections, pointer_positions, wheel_directions) ==
    LET occupied == {i \in 1..Len(pointer_positions) :
                        /\ i <= Len(pointer_to_key_by_player)
                        /\ player_detections[i] # None}
    IN  ({pointer_to_key_by_player[i][pointer_positions[i]] : i \in occupied}
         \cup {wheel_to_key_by_player[i][wheel_directions[i]] : i \in occupied})
        \ {""}

\* The controller that counts a demanded key once per frame: decay every
\* tracked count by 1, add 1 for every key of the set, then release and
\* forget the keys at 0 and press the keys above 0 that are not pressed
advance(state, desired_keys) ==
    LET tracked == DOMAIN state.counts \cup desired_keys
        counts == [key \in tracked |->
                      (IF key \in DOMAIN state.counts
                       THEN state.counts[key] - 1 ELSE 0)
                      + (IF key \in desired_keys THEN 1 ELSE 0)]
        released_now == {key \in tracked : counts[key] = 0}
        pressed_now == {key \in tracked :
                           counts[key] > 0 /\ key \notin state.pressed}
    IN  [state |-> [counts |-> [key \in tracked \ released_now |-> counts[key]],
                    pressed |-> (state.pressed \ released_now) \cup pressed_now],
         pressed_now |-> pressed_now,
         released_now |-> released_now]

\* The controller before the first frame
NoKeys == [counts |-> << >>, pressed |-> {}]

NoFrame ==
    [status |-> "none", first_detection |-> None, detection_count |-> 0,
     player_detections |-> <<None, None>>,
     pointer_positions |-> << >>, wheel_directions |-> << >>,
     commands |-> << >>, active_before |-> {}, run_before |-> {},
     activations_before |-> << >>,
     after_decay |-> << >>, after_demand |-> << >>]

\* Engine.run on one frame for which the detector gives the detections.
\* The value of each step is bound once, by a quantifier over a singleton.
Run(detections) ==
    /\ main.pc = "loop"
    /\ frame.status \in {"none", "returned"}
    /\ \E player_detections \in {PlayerDetections(detections)} :
       \E decayed \in {Decay(activations_by_key)} :
       \E demanded \in {Demand(decayed, player_detections)} :
       \E resolved \in {Resolve(demanded.activations, active_keys)} :
       LET seen == [status |-> "returned",
                    first_detection |->
                        IF Len(detections) = 0 THEN None ELSE Some(detections[1]),
                    detection_count |-> Len(detections),
                    player_detections |-> player_detections,
                    pointer_positions |-> demanded.pointer_positions,
                    wheel_directions |-> demanded.wheel_directions,
                    commands |-> << >>,
                    active_before |-> active_keys,
                    run_before |-> single_source_run,
                    activations_before |-> activations_by_key,
                    after_decay |-> decayed,
                    after_demand |-> demanded.activations]
       IN  /\ \A i \in 1..Len(demanded.activations) :
                 demanded.activations[i].activation <= MaxActivation
           /\ IF demanded.raised # ""
              THEN /\ activations_by_key' = demanded.activations
                   /\ frame' = [seen EXCEPT !.status = demanded.raised]
                   /\ UNCHANGED <<active_keys, keyboard, single_source_run,
                                  reference>>
              ELSE /\ activations_by_key' =
                          IF resolved.raised # ""
                          THEN demanded.activations
                          ELSE DeleteKeys(demanded.activations,
                                          resolved.released_key_set)
                   /\ active_keys' = resolved.active_keys
                   /\ keyboard' = SendAll(keyboard, resolved.commands, 1)
                   /\ frame' = [seen EXCEPT
                                   !.status = IF resolved.raised # ""
                                              THEN resolved.raised
                                              ELSE "returned",
                                   !.commands = resolved.commands]
                   /\ single_source_run' =
                          IF resolved.raised # "" THEN single_source_run
                          ELSE RunAfter(single_source_run, active_keys,
                                        demanded.pointer_positions,
                                        demanded.wheel_directions)
                   /\ reference' =
                          IF resolved.raised # "" THEN reference
                          ELSE advance(reference,
                                       DesiredKeys(player_detections,
                                                   demanded.pointer_positions,
                                                   demanded.wheel_directions)).state
    /\ UNCHANGED <<pointer_to_key_by_player, wheel_to_key_by_player,
                   single_player, args, results, argv, main>>

\* Binding tables

\* Faulty variant: NOT_DETECTED is bound to the key of LOW
PointerTableNotDetectedAsLow(high, mid, low, not_detected) ==
    [high |-> high, mid |-> mid, low |-> low, not_detected |-> low]

PointerTable(high, mid, low, not_detected) ==
    [high |-> high, mid |-> mid, low |-> low, not_detected |-> not_detected]

WheelTable(left, neutral, right, not_detected) ==
    [left |-> left, neutral |-> neutral, right |-> right,
     not_detected |-> not_detected]

\* Both players and both channels on the same two keys
SharedBindings ==
    [pointer |-> <<PointerTable("a", "", "b", ""), PointerTable("a", "", "b", "")>>,
     wheel |-> <<WheelTable("a", "", "b", ""), WheelTable("a", "", "b", "")>>]

\* A key per player, as main and simulate bind them
SeparateBindings ==
    [pointer |-> <<PointerTable("a", "", "", ""), PointerTable("b", "", "", "")>>,
     wheel |-> <<WheelTable("a", "", "", ""), WheelTable("", "b", "b", "")>>]

\* NOT_DETECTED bound to a key, which the constructor allows
NotDetectedBindings ==
    [pointer |-> <<PointerTable("a", "", "", ""), PointerTable("", "", "a", "b")>>,
     wheel |-> <<WheelTable("", "", "a", ""), WheelTable("", "", "", "")>>]

\* The tables of one player only
OnePlayerBindings ==
    [pointer |-> <<PointerTable("a", "", "b", "")>>,
     wheel |-> <<WheelTable("a", "", "b", "")>>]

Bindings ==
    {SharedBindings, SeparateBindings, NotDetectedBindings, OnePlayerBindings}

\* The detections the detector gives the engine
EngineDetections ==
    { \* left half, hands at nose level, level wrists: high, neutral
      MakeDetection(Point(50, 0), Point(50, 100), Point(50, 100),
                    Point(50, 0), Point(20, 0)),
      \* left half, hands at hip level, left wrist down: low, right
      MakeDetection(Point(50, 0), None, Point(50, 100),
                    Point(20, 100), Point(20, 34)),
      \* right half, hands at nose level, left wrist up: high, left
      MakeDetection(Point(50, 0), Point(50, 100), None,
                    Point(80, -20), Point(80, 34)),
      \* a wrist is missing
      MakeDetection(Point(50, 0), Point(50, 100), Point(50, 100),
                    Point(20, 34), None),
      \* right half, the hips at the level of the nose
      MakeDetection(Point(50, 34), Point(50, 34), None,
                    Point(80, 0), Point(50, 0)) }

\* ------------------------------------------------------------------------
\* The command line of main

\* The names of pynput.keyboard.Key that the command lines below use
KEY_BY_NAME == {"up", "down", "left", "right"}

\* The binding options, in the order of keys_args
OptionNames ==
    <<"--key_for_player1_high", "--key_for_player1_mid",
      "--key_for_player1_low", "--key_for_player1_left",
      "--key_for_player1_neutral", "--key_for_player1_right",
      "--key_for_player2_high", "--key_for_player2_mid",
      "--key_for_player2_low", "--key_for_player2_left",
      "--key_for_player2_neutral", "--key_for_player2_right">>

\* The defaults of the binding options
DefaultKeys ==
    <<"up", "", "down", "left", "", "right", "w", "", "s", "a", "", "d">>

\* The values given to a binding option on the command line: none, a
\* character, and a name that pynput does not know (the defaults hold the
\* names that it knows)
OptionValues == {"", "w", "UP"}

MaxChanged == 2

\* The binding options with at most MaxChanged of them given
KeyOptions ==
    UNION {{[i \in 1..Len(DefaultKeys) |->
                IF i \in given THEN value[i] ELSE DefaultKeys[i]] :
            value \in [given -> OptionValues]} :
           given \in {options \in SUBSET (1..Len(DefaultKeys)) :
                         Cardinality(options) <= MaxChanged}}

\* keys_args of validate_keys
keys_args(namespace) ==
    [i \in 1..Len(OptionNames) |-> <<namespace.keys[i], OptionNames[i]>>]

RECURSIVE ValidateLoop(_, _, _)
\* for key, arg in keys_args, from item i on; an error is the pair of the
\* option and the value that f"{arg} == {key!r}" formats
ValidateLoop(errors, pairs, i) ==
    IF i > Len(pairs) THEN errors
    ELSE LET key == pairs[i][1]
             arg == pairs[i][2]
         IN  IF Len(key) <= 1
             THEN ValidateLoop(errors, pairs, i + 1)
             ELSE IF key \notin KEY_BY_NAME
                  THEN ValidateLoop(Append(errors, <<arg, key>>), pairs, i + 1)
                  ELSE ValidateLoop(errors, pairs, i + 1)

\* Faulty variant: only the first invalid option is reported
validate_keys_first_only(namespace) ==
    LET errors == ValidateLoop(<< >>, keys_args(namespace), 1)
    IN  IF Len(errors) > 0 THEN Some(<<errors[1]>>) ELSE None

validate_keys(namespace) ==
    LET errors == ValidateLoop(<< >>, keys_args(namespace), 1)
    IN  IF Len(errors) > 0 THEN Some(errors) ELSE None

\* main before it parsed the command line
NotStarted ==
    [pc |-> "start", validated |-> FALSE, invalid_key_args |-> None,
     exit_code |-> None]

\* main in its loop over the frames, and a caller that made the Engine itself
InLoop ==
    [pc |-> "loop", validated |-> TRUE, invalid_key_args |-> None,
     exit_code |-> None]

DefaultArgv == [version |-> FALSE, keys |-> DefaultKeys, single_player |-> FALSE]

NoResults ==
    [op |-> "none", pointer_position |-> "", wheel_direction |-> "",
     hip_level |-> None, center |-> None, wheel_angle |-> None,
     players |-> <<None, None>>, players_reversed |-> <<None, None>>]

Init ==
    /\ \E bindings \in Bindings :
          /\ pointer_to_key_by_player = bindings.pointer
          /\ wheel_to_key_by_player = bindings.wheel
    /\ single_player \in BOOLEAN
    /\ activations_by_key = << >>
    /\ active_keys = {}
    /\ keyboard = [held |-> {}, redundant |-> FALSE]
    /\ frame = NoFrame
    /\ single_source_run = {}
    /\ reference = NoKeys
    /\ args = << >>
    /\ results = NoResults
    /\ argv = DefaultArgv
    /\ main = InLoop

Next == \E detections \in SeqsUpTo(EngineDetections, MaxDetections) : Run(detections)

Spec == Init /\ [][Next]_vars

\* ------------------------------------------------------------------------
\* The classifiers and the player assignment as calls on given arguments

Classify ==
    /\ results.op = "none"
    /\ Len(args) = 1
    /\ results' = [NoResults EXCEPT
                      !.op = "classify",
                      !.pointer_position = determine_pointer_position(args[1]),
                      !.wheel_direction = determine_wheel_direction(args[1]),
                      !.hip_level = determine_hip_level(args[1]),
                      !.center = determine_center_of_wrists(args[1]),
                      !.wheel_angle = determine_wheel_angle(args[1])]
    /\ UNCHANGED <<args, engine_vars, argv, main>>

\* split_detections_for_each_player on the arguments, and on the same
\* detections in the other order
Split ==
    /\ results.op = "none"
    /\ results' = [NoResults EXCEPT
                      !.op = "split",
                      !.players = split_detections_for_each_player(args),
                      !.players_reversed =
                          split_detections_for_each_player(Reverse(args))]
    /\ UNCHANGED <<args, engine_vars, argv, main>>

InitCalls ==
    /\ pointer_to_key_by_player = SharedBindings.pointer
    /\ wheel_to_key_by_player = SharedBindings.wheel
    /\ single_player = FALSE
    /\ activations_by_key = << >>
    /\ active_keys = {}
    /\ keyboard = [held |-> {}, redundant |-> FALSE]
    /\ frame = NoFrame
    /\ single_source_run = {}
    /\ reference = NoKeys
    /\ args \in {<<detection>> : detection \in ClassifyDetections}
                \cup SeqsUpTo(SplitDetections, MaxSplitLen)
    /\ results = NoResults
    /\ argv = DefaultArgv
    /\ main = InLoop

NextCalls == Classify \/ Split

SpecCalls == InitCalls /\ [][NextCalls]_vars

\* ------------------------------------------------------------------------
\* main: the command line, the Engine and the loop over the frames

\* main up to its loop: --version, validate_keys, the binding tables, the
\* video capture and Engine.__init__
Main ==
    /\ main.pc = "start"
    /\ \E invalid_key_args \in {validate_keys(argv)} :
       \E opened \in BOOLEAN :
          IF argv.version
          THEN /\ main' = [main EXCEPT !.pc = "exited", !.exit_code = Some(0)]
               /\ UNCHANGED engine_vars
          ELSE IF invalid_key_args # None
          THEN /\ main' = [pc |-> "exited", validated |-> TRUE,
                           invalid_key_args |-> invalid_key_args,
                           exit_code |-> Some(1)]
               /\ UNCHANGED engine_vars
          ELSE IF ~opened
          THEN /\ main' = [pc |-> "exited", validated |-> TRUE,
                           invalid_key_args |-> None, exit_code |-> Some(1)]
               /\ UNCHANGED engine_vars
          ELSE /\ main' = InLoop
               /\ pointer_to_key_by_player' =
                      <<PointerTable(argv.keys[1], argv.keys[2], argv.keys[3], ""),
                        PointerTable(argv.keys[7], argv.keys[8], argv.keys[9], "")>>
               /\ wheel_to_key_by_player' =
                      <<WheelTable(argv.keys[4], argv.keys[5], argv.keys[6], ""),
                        WheelTable(argv.keys[10], argv.keys[11], argv.keys[12], "")>>
               /\ single_player' = argv.single_player
               /\ activations_by_key' = << >>
               /\ active_keys' = {}
               /\ UNCHANGED <<keyboard, frame, single_source_run, reference>>
    /\ UNCHANGED <<args, results, argv>>

\* engine.run(frame) in the loop of main, on a frame of at most one detection
MainFrame ==
    \E detections \in SeqsUpTo(EngineDetections, 1) : Run(detections)

\* The loop of main ends: no frame could be read, or 'q' was pressed
Quit ==
    /\ main.pc = "loop"
    /\ frame.status \in {"none", "returned"}
    /\ main' = [main EXCEPT !.pc = "exited", !.exit_code = Some(0)]
    /\ UNCHANGED <<args, results, argv, engine_vars>>

InitMain ==
    /\ pointer_to_key_by_player = << >>
    /\ wheel_to_key_by_player = << >>
    /\ single_player = FALSE
    /\ activations_by_key = << >>
    /\ active_keys = {}
    /\ keyboard = [held |-> {}, redundant |-> FALSE]
    /\ frame = NoFrame
    /\ single_source_run = {}
    /\ reference = NoKeys
    /\ args = << >>
    /\ results = NoResults
    /\ argv \in [version : BOOLEAN, keys : KeyOptions, single_player : BOOLEAN]
    /\ main = NotStarted

NextMain == Main \/ MainFrame \/ Quit

SpecMain == InitMain /\ [][NextMain]_vars

\* The loop of main and of simulate on an Engine, for as long as frames can
\* be read: engine.run is called again whenever the last call returned
NextLive == MainFrame

SpecLive == Init /\ [][NextLive]_vars /\ WF_vars(NextLive)

\* ------------------------------------------------------------------------
\* What a frame did, for the properties below.  frame.first_detection and
\* frame.detection_count are the head and the length of the detector's list.

Returned == frame.status = "returned"

\* The commands the last frame sent for the key, in order
CommandsFor(key) == SelectSeq(frame.commands, LAMBDA command : command[2] = key)

\* The logical sources that demanded the key in the last frame
FrameSources(key) ==
    Sources(key, frame.pointer_positions, frame.wheel_directions)

Demanded(key) == FrameSources(key) # {}

\* The count of the key in the dictionary, 0 when it is not tracked
CountIn(dict, key) == IF key \in DictKeys(dict) THEN DictGet(dict, key) ELSE 0

\* ------------------------------------------------------------------------
\* C1: once a key is pressed, its release is sent in the first later frame
\* in which no logical source demands it, and in no frame in which a source
\* demands it, also when several sources are bound to the key.
C1_ReleasedInFirstFrameWithoutDemand ==
    Returned =>
        \A key \in Keys :
            /\ (key \in frame.active_before /\ ~Demanded(key))
                   => CommandsFor(key) = << <<"release", key>> >>
            /\ Demanded(key) => <<"release", key>> \notin
                   {frame.commands[i] : i \in 1..Len(frame.commands)}

\* C2: in every frame that Engine.run completes and in which at least one
\* logical source demands a non-empty key, no release of the key is sent,
\* the key is in active_keys when the frame ends, and a press of the key is
\* sent in that frame if the key was not in active_keys when it began.
C2_DemandedKeyIsHeld ==
    Returned =>
        \A key \in Keys :
            Demanded(key) =>
                /\ \A i \in 1..Len(frame.commands) :
                       frame.commands[i] # <<"release", key>>
                /\ key \in active_keys
                /\ key \notin frame.active_before =>
                       \E i \in 1..Len(frame.commands) :
                           frame.commands[i] = <<"press", key>>

\* A frame pressed a key that was not held and kept another one held, both
\* demanded
C2_Witness ==
    /\ Returned
    /\ \E key \in Keys :
          /\ Demanded(key)
          /\ key \notin frame.active_before
          /\ CommandsFor(key) = << <<"press", key>> >>
    /\ \E key \in Keys :
          /\ Demanded(key)
          /\ key \in frame.active_before
          /\ key \in active_keys

\* C3: a key that is not held and is then demanded by exactly one logical
\* source in each frame of a run gets one press, in the first frame of the
\* run, no command in the other frames of the run, and its release in the
\* frame after the run, in which no source demands it.
\* frame.run_before holds the keys that were in such a run after the frame
\* before.
C3_SingleSourceRun ==
    Returned =>
        \A key \in Keys :
            LET n == Cardinality(FrameSources(key))
            IN  /\ (n = 1 /\ key \notin frame.active_before)
                       => CommandsFor(key) = << <<"press", key>> >>
                /\ (n = 1 /\ key \in frame.run_before)
                       => CommandsFor(key) = << >>
                /\ (n = 0 /\ key \in frame.run_before)
                       => CommandsFor(key) = << <<"release", key>> >>

\* The frame after a run of single-source frames released the key
C3_Witness ==
    /\ Returned
    /\ \E key \in Keys :
          /\ key \in frame.run_before
          /\ ~Demanded(key)
          /\ CommandsFor(key) = << <<"release", key>> >>
          /\ key \notin active_keys

\* C4: the commands sent for a key alternate press, release, press, ...,
\* starting with a press: the sink never gets a press of a key it holds nor
\* a release of a key it does not hold, the assertions of the resolve loop
\* never fail, and a key gets at most one command per frame.
C4_CommandsAlternate ==
    /\ ~keyboard.redundant
    /\ keyboard.held = active_keys
    /\ frame.status # "AssertionError"
    /\ \A key \in Keys :
          /\ Len(CommandsFor(key)) <= 1
          /\ CommandsFor(key) = << <<"press", key>> >>
                 => key \notin frame.active_before
          /\ CommandsFor(key) = << <<"release", key>> >>
                 => key \in frame.active_before

\* A frame released one key and pressed the other
C4_Witness ==
    /\ Returned
    /\ \E released \in Keys, pressed \in Keys :
          /\ CommandsFor(released) = << <<"release", released>> >>
          /\ CommandsFor(pressed) = << <<"press", pressed>> >>

\* ------------------------------------------------------------------------
\* What a classifier call was given, for the properties below

Classified == results.op = "classify"

Present(label) == label \in DOMAIN args[1]

BothWrists == Present("LEFT_WRIST") /\ Present("RIGHT_WRIST")

SomeHip == Present("LEFT_HIP") \/ Present("RIGHT_HIP")

\* Twice the average y of the hips that are present
TwiceHipY ==
    IF Present("LEFT_HIP") /\ Present("RIGHT_HIP")
    THEN args[1]["LEFT_HIP"].y + args[1]["RIGHT_HIP"].y
    ELSE IF Present("LEFT_HIP") THEN 2 * args[1]["LEFT_HIP"].y
    ELSE 2 * args[1]["RIGHT_HIP"].y

\* relative = RelativeNum / RelativeDen
RelativeNum == TwiceHipY - (args[1]["LEFT_WRIST"].y + args[1]["RIGHT_WRIST"].y)

RelativeDen == TwiceHipY - 2 * args[1]["NOSE"].y

\* relative > percent / 100, for RelativeDen # 0
RelativeAbove(percent) ==
    \/ RelativeDen > 0 /\ 100 * RelativeNum > percent * RelativeDen
    \/ RelativeDen < 0 /\ 100 * RelativeNum < percent * RelativeDen

\* Twice the vector from the wrist midpoint to the LEFT_WRIST keypoint
TwiceVx == args[1]["LEFT_WRIST"].x - args[1]["RIGHT_WRIST"].x

TwiceVy == args[1]["LEFT_WRIST"].y - args[1]["RIGHT_WRIST"].y

\* |angle of (vx, -vy)| <= 22 degrees, with tan(22 degrees) = 0.4040262...
WithinTolerance ==
    /\ TwiceVx > 0
    /\ 10000000 * Abs(TwiceVy) <= 4040262 * TwiceVx

\* C5: for every detection, whatever keypoints are present and whatever
\* their coordinates, determine_pointer_position returns a Pointer value and
\* determine_wheel_direction returns a Wheel value, and neither raises.
C5_ClassifiersNeverRaise ==
    Classified =>
        /\ results.pointer_position \in Pointer
        /\ results.wheel_direction \in Wheel

\* ------------------------------------------------------------------------
\* What split_detections_for_each_player was given

HasBothWrists(detection) ==
    {"LEFT_WRIST", "RIGHT_WRIST"} \subseteq DOMAIN detection

\* Twice the x of the wrist midpoint is below, or not below, twice 0.5
InLeftHalf(detection) ==
    /\ HasBothWrists(detection)
    /\ detection["LEFT_WRIST"].x + detection["RIGHT_WRIST"].x < 100

InRightHalf(detection) ==
    /\ HasBothWrists(detection)
    /\ detection["LEFT_WRIST"].x + detection["RIGHT_WRIST"].x >= 100

\* The first detection of the arguments that is in the left half (or in the
\* right half), if any
FirstInHalf(left) ==
    LET matching == {i \in 1..Len(args) :
                        IF left THEN InLeftHalf(args[i]) ELSE InRightHalf(args[i])}
    IN  IF matching = {} THEN None
        ELSE Some(args[CHOOSE i \in matching : \A j \in matching : i <= j])

\* C6: split_detections_for_each_player gives slot 0 the first detection in
\* input order with both wrists and wrist-midpoint x < 0.5, and slot 1 the
\* first one with both wrists and wrist-midpoint x >= 0.5; a slot with no
\* such detection is absent, so detections without a wrist and later
\* detections of a filled slot appear in no slot.
C6_FirstDetectionOfEachHalf ==
    results.op = "split" =>
        /\ results.players[1] = FirstInHalf(TRUE)
        /\ results.players[2] = FirstInHalf(FALSE)

\* Two detections of the left half and one with the wrist midpoint at
\* exactly 0.5: the first one and the last one get the slots
C6_Witness ==
    /\ results.op = "split"
    /\ Len(args) = 3
    /\ InLeftHalf(args[1]) /\ InLeftHalf(args[2]) /\ args[1] # args[2]
    /\ HasBothWrists(args[3])
    /\ args[3]["LEFT_WRIST"].x + args[3]["RIGHT_WRIST"].x = 100
    /\ results.players = <<Some(args[1]), Some(args[3])>>

\* C7: in single-player mode every frame takes the first detection of the
\* list, if there is one, as player 0, whatever its wrists, and no detection
\* as player 1; player 1 is classified NOT_DETECTED on both channels, and the
\* counts a completed frame adds to a key are those of the bindings of
\* player 0's classification and of player 1's NOT_DETECTED bindings.
C7_SinglePlayerTakesFirstDetection ==
    (single_player /\ frame.status # "none") =>
        /\ frame.player_detections = <<frame.first_detection, None>>
        /\ frame.first_detection = None <=> frame.detection_count = 0
        /\ Len(frame.pointer_positions) >= 2 =>
               /\ frame.pointer_positions[2] = "not_detected"
               /\ frame.wheel_directions[2] = "not_detected"
        /\ Returned =>
               \A key \in Keys :
                   CountIn(frame.after_demand, key) - CountIn(frame.after_decay, key)
                   = Cardinality(
                         {channel \in {"pointer", "wheel"} :
                             \/ /\ channel = "pointer"
                                /\ pointer_to_key_by_player[1][frame.pointer_positions[1]] = key
                             \/ /\ channel = "wheel"
                                /\ wheel_to_key_by_player[1][frame.wheel_directions[1]] = key})
                     + Cardinality(
                         {channel \in {"pointer", "wheel"} :
                             \/ /\ channel = "pointer"
                                /\ pointer_to_key_by_player[2]["not_detected"] = key
                             \/ /\ channel = "wheel"
                                /\ wheel_to_key_by_player[2]["not_detected"] = key})

\* A single-player frame with two detections, the first one in the right
\* half, which was classified as player 0 and demanded a key
C7_Witness ==
    /\ single_player
    /\ Returned
    /\ frame.detection_count = 2
    /\ InRightHalf(frame.first_detection[1])
    /\ frame.player_detections = <<frame.first_detection, None>>
    /\ frame.pointer_positions = <<"high", "not_detected">>
    /\ active_keys # {}

\* C8: pointer classification gives NOT_DETECTED for every detection without
\* NOSE, or without both hips, or without a wrist, whatever else is present;
\* one hip is enough for the hip level, and then a detection with the nose
\* and both wrists is not NOT_DETECTED; wheel classification gives
\* NOT_DETECTED exactly when a wrist is absent.
C8_NotDetected ==
    Classified =>
        /\ (~Present("NOSE") \/ ~SomeHip \/ ~BothWrists)
               => results.pointer_position = "not_detected"
        /\ SomeHip <=> results.hip_level # None
        /\ (Present("NOSE") /\ SomeHip /\ BothWrists)
               => results.pointer_position # "not_detected"
        /\ results.wheel_direction = "not_detected" <=> ~BothWrists
        /\ results.wheel_angle = None <=> ~BothWrists

\* A detection with the nose, both wrists and the right hip only, which is
\* classified with that hip as the hip level
C8_Witness ==
    /\ Classified
    /\ Present("NOSE") /\ BothWrists
    /\ ~Present("LEFT_HIP") /\ Present("RIGHT_HIP")
    /\ results.hip_level = Some(args[1]["RIGHT_HIP"].y)
    /\ results.pointer_position \in {"high", "mid", "low"}

\* C9: for a detection with the nose, a hip and both wrists, and with
\* relative = (hip_y - wrist_mid_y) / (hip_y - nose_y) for hip_y # nose_y,
\* the pointer is HIGH when relative > 0.66, MID when 0.33 < relative <= 0.66
\* and LOW when relative <= 0.33, without clamping; relative = 0 gives LOW,
\* relative = 1 gives HIGH and relative = 0.5 gives MID.
C9_PointerThresholds ==
    (Classified /\ Present("NOSE") /\ SomeHip /\ BothWrists /\ RelativeDen # 0) =>
        /\ results.pointer_position =
               IF RelativeAbove(66) THEN "high"
               ELSE IF RelativeAbove(33) THEN "mid"
               ELSE "low"
        /\ RelativeNum = 0 => results.pointer_position = "low"
        /\ RelativeNum = RelativeDen => results.pointer_position = "high"
        /\ 2 * RelativeNum = RelativeDen => results.pointer_position = "mid"

\* relative is exactly 0.66, which is MID
C9_Witness ==
    /\ Classified /\ Present("NOSE") /\ SomeHip /\ BothWrists
    /\ RelativeDen # 0
    /\ 100 * RelativeNum = 66 * RelativeDen
    /\ results.pointer_position = "mid"

\* C10: for a detection with both wrists at different points, and with angle
\* the direction of (vx, -vy) in degrees, the wheel is NEUTRAL when
\* |angle| <= 22, RIGHT when angle < -22 and LEFT when angle > 22; vy = 0 with
\* vx > 0 gives NEUTRAL, vx = 0 with vy > 0 gives RIGHT and vx = 0 with vy < 0
\* gives LEFT.  On the negative x axis (vy = 0, vx < 0) the direction is 180
\* or -180 degrees and the wheel is LEFT or RIGHT.
C10_WheelThresholds ==
    (Classified /\ BothWrists /\ <<TwiceVx, TwiceVy>> # <<0, 0>>) =>
        /\ results.wheel_direction =
               IF WithinTolerance THEN "neutral"
               ELSE IF TwiceVy > 0 THEN "right"
               ELSE IF TwiceVy < 0 THEN "left"
               ELSE results.wheel_direction
        /\ results.wheel_direction \in {"left", "neutral", "right"}
        /\ (TwiceVy = 0 /\ TwiceVx > 0) => results.wheel_direction = "neutral"
        /\ (TwiceVy = 0 /\ TwiceVx < 0) => results.wheel_direction # "neutral"
        /\ (TwiceVx = 0 /\ TwiceVy > 0) => results.wheel_direction = "right"
        /\ (TwiceVx = 0 /\ TwiceVy < 0) => results.wheel_direction = "left"

\* The left wrist is to the right of and below the midpoint, by more than
\* 22 degrees: RIGHT
C10_Witness ==
    /\ Classified /\ BothWrists
    /\ TwiceVx > 0 /\ TwiceVy > 0
    /\ ~WithinTolerance
    /\ results.wheel_direction = "right"

\* ------------------------------------------------------------------------
\* The binding options whose value is longer than one character and is not
\* the name of a key
InvalidOptions ==
    {i \in 1..Len(OptionNames) :
        Len(argv.keys[i]) > 1 /\ argv.keys[i] \notin KEY_BY_NAME}

\* What validate_keys reported to main, as a sequence
Reported ==
    IF main.invalid_key_args = None THEN << >> ELSE main.invalid_key_args[1]

\* No Engine was made, no frame was processed and no key was sent
NothingRan ==
    /\ pointer_to_key_by_player = << >>
    /\ wheel_to_key_by_player = << >>
    /\ frame = NoFrame
    /\ activations_by_key = << >>
    /\ active_keys = {}
    /\ keyboard = [held |-> {}, redundant |-> FALSE]

\* C11: validate_keys reports each binding option whose value is longer than
\* one character and is not a key name, all of them in one list and each
\* once, reports no option with an empty or one-character value, and returns
\* None when there is none; when an option is reported, main has returned
\* exit code 1 and no Engine was made, no frame was processed and no key was
\* pressed or released.
C11_InvalidKeysReportedBeforeAnyFrame ==
    main.validated =>
        /\ {Reported[j] : j \in 1..Len(Reported)} =
               {<<OptionNames[i], argv.keys[i]>> : i \in InvalidOptions}
        /\ Len(Reported) = Cardinality(InvalidOptions)
        /\ \A j \in 1..Len(Reported) : Len(Reported[j][2]) > 1
        /\ main.invalid_key_args = None <=> InvalidOptions = {}
        /\ InvalidOptions # {} =>
               /\ main.pc = "exited"
               /\ main.exit_code = Some(1)
               /\ NothingRan

\* main returned 1 for a command line with two invalid options, next to
\* options with an empty value, a character and the name of a key
C11_Witness ==
    /\ main.validated
    /\ Cardinality(InvalidOptions) = 2
    /\ Len(Reported) = 2
    /\ \E i, j, k \in 1..Len(OptionNames) :
          /\ argv.keys[i] = ""
          /\ Len(argv.keys[j]) = 1
          /\ argv.keys[k] \in KEY_BY_NAME
    /\ main.exit_code = Some(1)

\* ------------------------------------------------------------------------
\* No key is tracked and none is held
Idle(activations, active) == activations = << >> /\ active = {}

\* No logical source demanded a key in the last frame
NoDemand == \A key \in Keys : ~Demanded(key)

\* C12: a new Engine tracks no key and holds none; a frame that begins with
\* no key tracked and none held, and in which no logical source demands a
\* key, sends no command and ends with no key tracked and none held, so
\* that any number of such frames in a row does the same.
C12_IdleFramesDoNothing ==
    /\ frame.status = "none" => Idle(activations_by_key, active_keys)
    /\ (/\ Returned
        /\ Idle(frame.activations_before, frame.active_before)
        /\ NoDemand)
           => /\ frame.commands = << >>
              /\ Idle(activations_by_key, active_keys)
              /\ keyboard.held = {}

\* A frame that began with no key tracked and none held, with a detection
\* whose bindings name no key, sent nothing and ended the same way
C12_Witness ==
    /\ Returned
    /\ Idle(frame.activations_before, frame.active_before)
    /\ NoDemand
    /\ frame.detection_count > 0
    /\ frame.player_detections # <<None, None>>
    /\ frame.commands = << >>
    /\ Idle(activations_by_key, active_keys)

\* ------------------------------------------------------------------------
\* C13: for two detections with both wrists, one with the wrist midpoint at
\* x < 0.5 and one at x >= 0.5, split_detections_for_each_player gives the
\* pair (the left one, the right one) for both orders of the list; for two
\* detections of the same half the first of the list gets the slot of that
\* half and the other slot is absent, so that the other order gives the slot
\* to the other detection.
C13_SplitOrder ==
    (results.op = "split" /\ Len(args) = 2) =>
        /\ (InLeftHalf(args[1]) /\ InRightHalf(args[2])) =>
               /\ results.players = <<Some(args[1]), Some(args[2])>>
               /\ results.players_reversed = results.players
        /\ (InRightHalf(args[1]) /\ InLeftHalf(args[2])) =>
               /\ results.players = <<Some(args[2]), Some(args[1])>>
               /\ results.players_reversed = results.players
        /\ (InLeftHalf(args[1]) /\ InLeftHalf(args[2])) =>
               /\ results.players = <<Some(args[1]), None>>
               /\ results.players_reversed = <<Some(args[2]), None>>
        /\ (InRightHalf(args[1]) /\ InRightHalf(args[2])) =>
               /\ results.players = <<None, Some(args[1])>>
               /\ results.players_reversed = <<None, Some(args[2])>>

\* Two different detections of the left half: each order keeps its first
C13_Witness ==
    /\ results.op = "split"
    /\ Len(args) = 2
    /\ InLeftHalf(args[1]) /\ InLeftHalf(args[2])
    /\ args[1] # args[2]
    /\ results.players = <<Some(args[1]), None>>
    /\ results.players_reversed # results.players

\* ------------------------------------------------------------------------
\* NOT_DETECTED is bound to no key in every table of the Engine
NotDetectedUnbound ==
    /\ \A i \in 1..Len(pointer_to_key_by_player) :
           pointer_to_key_by_player[i]["not_detected"] = ""
    /\ \A i \in 1..Len(wheel_to_key_by_player) :
           wheel_to_key_by_player[i]["not_detected"] = ""

\* The entries of the dictionary whose count is 0, and the others
ZeroEntries(dict) == SelectSeq(dict, LAMBDA entry : entry.activation = 0)

PositiveEntries(dict) == SelectSeq(dict, LAMBDA entry : entry.activation > 0)

\* C14: the tables that main builds bind NOT_DETECTED to no key; a player
\* slot without a detection is classified NOT_DETECTED on both channels; and
\* a frame without detections increments no count and sends no press: it
\* decrements every tracked count by 1 and then releases, and stops
\* tracking, exactly the keys whose count became 0.
C14_EmptyFrameOnlyDecays ==
    /\ main.pc = "loop" => NotDetectedUnbound
    /\ frame.status # "none" =>
           \A i \in 1..Len(frame.pointer_positions) :
               frame.player_detections[i] = None =>
                   /\ frame.pointer_positions[i] = "not_detected"
                   /\ frame.wheel_directions[i] = "not_detected"
    /\ (Returned /\ frame.detection_count = 0) =>
           /\ frame.player_detections = <<None, None>>
           /\ Len(frame.after_decay) = Len(frame.activations_before)
           /\ \A j \in 1..Len(frame.after_decay) :
                  /\ frame.after_decay[j].key = frame.activations_before[j].key
                  /\ frame.after_decay[j].activation =
                         frame.activations_before[j].activation - 1
           /\ frame.after_demand = frame.after_decay
           /\ frame.commands =
                  [j \in 1..Len(ZeroEntries(frame.after_decay)) |->
                      <<"release", ZeroEntries(frame.after_decay)[j].key>>]
           /\ activations_by_key = PositiveEntries(frame.after_decay)
           /\ active_keys =
                  frame.active_before \ DictKeys(ZeroEntries(frame.after_decay))

\* A frame without detections released one key and kept another one, whose
\* count it brought from 2 to 1
C14_Witness ==
    /\ Returned
    /\ frame.detection_count = 0
    /\ Len(frame.commands) = 1
    /\ frame.commands[1][1] = "release"
    /\ \E j \in 1..Len(frame.activations_before) :
          /\ frame.activations_before[j].activation = 2
          /\ frame.after_demand[j].activation = 1
          /\ frame.activations_before[j].key \in active_keys

\* ------------------------------------------------------------------------
\* The commands the last frame sent, as a set
FrameCommands == {frame.commands[i] : i \in 1..Len(frame.commands)}

\* C15: in every state of the Engine, also within a frame and after a frame
\* that raised, the empty string is no key of activations_by_key and no
\* member of active_keys, and no press or release of the empty string was
\* sent, whichever classifications the tables bind to the empty string.
C15_EmptyKeyNeverTracked ==
    /\ "" \notin DictKeys(activations_by_key)
    /\ "" \notin DictKeys(frame.after_decay)
    /\ "" \notin DictKeys(frame.after_demand)
    /\ "" \notin active_keys
    /\ \A command \in FrameCommands : command[2] # ""
    /\ "" \notin keyboard.held

\* A frame classified both players, with bindings to the empty string and
\* to a key among them, and pressed the key
C15_Witness ==
    /\ Returned
    /\ Len(frame.pointer_positions) = 2
    /\ \E i \in 1..2 :
          /\ frame.player_detections[i] # None
          /\ pointer_to_key_by_player[i][frame.pointer_positions[i]] # ""
          /\ wheel_to_key_by_player[i][frame.wheel_directions[i]] = ""
    /\ \E i \in 1..2 :
          /\ frame.player_detections[i] = None
          /\ pointer_to_key_by_player[i][frame.pointer_positions[i]] = ""
    /\ \E command \in FrameCommands : command[1] = "press"

\* ------------------------------------------------------------------------
\* The keys the last frame pressed, and those it released
PressedNow == {command[2] : command \in {c \in FrameCommands : c[1] = "press"}}

ReleasedNow == {command[2] : command \in {c \in FrameCommands : c[1] = "release"}}

\* What the controller run on the set of the demanded keys does in the frame
\* that a step processes
ReferenceStep ==
    advance(reference,
            DesiredKeys(frame'.player_detections, frame'.pointer_positions,
                        frame'.wheel_directions))

\* C16: with tables that bind NOT_DETECTED to no key, every frame that
\* Engine.run completes (a step that leaves main where it is) presses and releases the keys that the controller
\* run on the set of the demanded keys presses and releases in that frame,
\* and leaves the same keys pressed, also when several logical sources are
\* bound to one key.
C16_SameAsSetController ==
    [][(main' = main /\ Returned' /\ NotDetectedUnbound) =>
           /\ PressedNow' = ReferenceStep.pressed_now
           /\ ReleasedNow' = ReferenceStep.released_now
           /\ active_keys' = ReferenceStep.state.pressed
           /\ reference' = ReferenceStep.state]_vars

\* ------------------------------------------------------------------------
\* The number of logical sources: two players with a pointer and a wheel each
SourceCount == Cardinality({0, 1} \X {"pointer", "wheel"})

\* C17: after every frame that Engine.run completes, the count of a tracked
\* key is the number of logical sources that demanded it in that frame, so
\* at most the number of logical sources; and a key that the same logical
\* sources demand in two frames in a row has the same count, at least 1,
\* after both.
C17_CountIsNumberOfSources ==
    /\ [](Returned =>
              \A key \in DictKeys(activations_by_key) :
                  /\ DictGet(activations_by_key, key) =
                         Cardinality(FrameSources(key))
                  /\ DictGet(activations_by_key, key) <= SourceCount)
    /\ [][(main' = main /\ Returned /\ Returned') =>
              \A key \in Keys :
                  (Demanded(key) /\ FrameSources(key)' = FrameSources(key)) =>
                      /\ CountIn(activations_by_key', key) =
                             CountIn(activations_by_key, key)
                      /\ CountIn(activations_by_key', key) >= 1]_vars

\* ------------------------------------------------------------------------
\* The counts of a dictionary
Counts(dict) == {dict[i].activation : i \in 1..Len(dict)}

\* C18: every count is at least 0 in every state of the Engine: between the
\* frames, after the decay step and after the demand step of a frame; and
\* no frame ends with a failed assertion of the resolve loop.
C18_CountsNeverNegative ==
    /\ \A activation \in Counts(activations_by_key) : activation >= 0
    /\ \A activation \in Counts(frame.activations_before) : activation >= 0
    /\ \A activation \in Counts(frame.after_decay) : activation >= 0
    /\ \A activation \in Counts(frame.after_demand) : activation >= 0
    /\ frame.status # "AssertionError"

\* A frame decayed a count to 0 and the demand step left it there, next to
\* a key that the frame demanded
C18_Witness ==
    /\ Returned
    /\ 0 \in Counts(frame.after_decay)
    /\ 0 \in Counts(frame.after_demand)
    /\ \E activation \in Counts(frame.after_demand) : activation >= 2

\* C19: when Engine.run returns, every tracked key has a count of at least
\* 1: the keys whose count is 0 after the decay and the demand steps were
\* released and deleted in this frame.
C19_NoZeroCountIsKept ==
    Returned =>
        /\ \A activation \in Counts(activations_by_key) : activation >= 1
        /\ \A key \in DictKeys(ZeroEntries(frame.after_demand)) :
               /\ <<"release", key>> \in FrameCommands
               /\ key \notin DictKeys(activations_by_key)
        /\ activations_by_key = PositiveEntries(frame.after_demand)

\* A frame released and deleted a key and kept another one
C19_Witness ==
    /\ Returned
    /\ ZeroEntries(frame.after_demand) # << >>
    /\ activations_by_key # << >>
    /\ Len(activations_by_key) < Len(frame.after_demand)

\* C20: whenever Engine.run is not running (before the first frame and
\* after every frame that returned), active_keys is the set of the tracked
\* keys with a positive count.
C20_PressedIffPositiveCount ==
    frame.status \in {"none", "returned"} =>
        active_keys = DictKeys(PositiveEntries(activations_by_key))

\* Two keys are held after a frame that pressed one of them
C20_Witness ==
    /\ Returned
    /\ Cardinality(active_keys) = 2
    /\ Len(frame.commands) = 1
    /\ frame.commands[1][1] = "press"
    /\ active_keys = DictKeys(activations_by_key)

\* ------------------------------------------------------------------------
\* The last frame was processed to its end, or none was processed yet, and
\* no logical source demanded the key in it
Quiet(key) == frame.status \in {"none", "returned"} /\ ~Demanded(key)

\* The key is not held and not tracked
Gone(key) == key \notin active_keys /\ key \notin DictKeys(activations_by_key)

\* C21: in every run of the loop in which frames keep being processed and,
\* from some frame on, no logical source demands a key, the key is, after
\* finitely many frames and from then on, neither held nor tracked, and a
\* held key only stops being held in a frame that sends its release: no key
\* stays pressed for ever without demand.
C21_ReleasedWithoutDemand ==
    /\ \A key \in Keys : <>[]Quiet(key) => <>[]Gone(key)
    /\ [][\A key \in Keys :
              (key \in active_keys /\ key \notin active_keys') =>
                  <<"release", key>> \in FrameCommands']_vars

\* A frame in which no source demanded a held key released it, and the key
\* is no longer held or tracked
C21_Witness ==
    /\ Returned
    /\ \E key \in Keys :
          /\ Quiet(key)
          /\ key \in frame.active_before
          /\ <<"release", key>> \in FrameCommands
          /\ Gone(key)

\* ------------------------------------------------------------------------
\* The preconditions of Engine.__init__: every table has an entry for every
\* classification, and there are as many pointer tables as wheel tables
Preconditions ==
    /\ \A i \in 1..Len(pointer_to_key_by_player) :
           Pointer \subseteq DOMAIN pointer_to_key_by_player[i]
    /\ \A i \in 1..Len(wheel_to_key_by_player) :
           Wheel \subseteq DOMAIN wheel_to_key_by_player[i]
    /\ Len(pointer_to_key_by_player) = Len(wheel_to_key_by_player)

\* C22: on an Engine whose constructor preconditions hold, no frame ends
\* with a failed lookup in the binding tables, in both modes, also when the
\* Engine has the tables of one player only and single_player is set.
C22_NoFailedLookup ==
    Preconditions => frame.status # "IndexError"

\* ------------------------------------------------------------------------
\* The wrists are level and the LEFT_WRIST keypoint is on the left of the
\* wrist midpoint
LevelAndLeft == TwiceVy = 0 /\ TwiceVx < 0

====
